---- MODULE Spec2Model ----
(***************************************************************************)
(* Model of the serializer helpers of restframework_sassan:                *)
(*   BulkListSerializer.update and BaseModelSerializer.__init__,           *)
(*   to_internal_value, create and update.                                 *)
(* Two copies of the module exist in the repository; `variant` says which  *)
(* one a behaviour runs: "package" is restframework_sassan/serializers.py, *)
(* "legacy" is the top-level serializers.py.                               *)
(***************************************************************************)
EXTENDS Integers, Sequences, FiniteSets, TLC

VARIABLES variant, op, pc, input, local, outcome, result, log, store

vars == <<variant, op, pc, input, local, outcome, result, log, store>>

Variants == {"package", "legacy"}

(***************************************************************************)
(* Bounds of the model.                                                    *)
(***************************************************************************)
MaxId == 2
MaxBatch == 2
MaxOpt == 3

(***************************************************************************)
(* The record store: records 1..n in some iteration order, each with a     *)
(* name attribute and the number of times it has been persisted.          *)
(***************************************************************************)
Ids == 1..MaxId

RECURSIVE Perms(_)
Perms(S) ==
    IF S = {} THEN {<<>>}
    ELSE UNION {{<<x>> \o p : p \in Perms(S \ {x})} : x \in S}

Range(s) == {s[i] : i \in 1..Len(s)}

OldName == "old"

FreshRecord == [name |-> OldName, saves |-> 0]

Stores ==
    UNION {{[order |-> p, recs |-> [i \in S |-> FreshRecord]] : p \in Perms(S)}
           : S \in SUBSET Ids}

NoStore == [order |-> <<>>, recs |-> <<>>]

StoreErrors == {"IntegrityError"}

(***************************************************************************)
(* int(): the raw identifier of a payload is what the client sent, a       *)
(* string of characters, or the framework's `empty` marker when the item   *)
(* carried none.                                                           *)
(***************************************************************************)
Digits == {"0", "1", "2", "3"}

DigitVal(c) == CASE c = "0" -> 0 [] c = "1" -> 1 [] c = "2" -> 2 [] c = "3" -> 3

RECURSIVE DecVal(_)
DecVal(s) ==
    IF s = <<>> THEN 0
    ELSE DecVal(SubSeq(s, 1, Len(s) - 1)) * 10 + DigitVal(s[Len(s)])

EmptyMarker == [kind |-> "empty", chars |-> <<>>]

Str(s) == [kind |-> "str", chars |-> s]

IntError(raw) ==
    IF raw.kind = "empty" THEN "TypeError"
    ELSE IF raw.chars = <<>> \/ \E i \in 1..Len(raw.chars) : raw.chars[i] \notin Digits
         THEN "ValueError"
         ELSE "none"

IntOf(raw) == DecVal(raw.chars)

RawIds == {Str(<<"1">>), Str(<<"2">>), Str(<<"0", "1">>), Str(<<"3">>),
           Str(<<"x">>), EmptyMarker}

Names == {"a", "b"}

Payloads == [id : RawIds, name : Names]

RECURSIVE SeqsUpTo(_, _)
SeqsUpTo(S, n) ==
    IF n = 0 THEN {<<>>}
    ELSE LET shorter == SeqsUpTo(S, n - 1)
         IN shorter \cup {Append(s, x) : s \in {t \in shorter : Len(t) = n - 1}, x \in S}

Batches == SeqsUpTo(Payloads, MaxBatch)

(***************************************************************************)
(* BulkListSerializer.update                                               *)
(***************************************************************************)
\* The first payload, in order, whose identifier int() refuses; 0 when none.
FirstBad(batch) ==
    LET bad == {i \in 1..Len(batch) : IntError(batch[i].id) # "none"}
    IN IF bad = {} THEN 0 ELSE CHOOSE i \in bad : \A j \in bad : i <= j

\* {int(i.pop(id_attr)): i for i in all_validated_data}: a later payload
\* replaces an earlier one under the same key; the identifier is popped.
ByIdPick(batch, k) ==
    CHOOSE i \in 1..Len(batch) :
        /\ IntOf(batch[i].id) = k
        /\ \A j \in 1..Len(batch) : IntOf(batch[j].id) = k => j <= i

AllValidatedDataById(batch) ==
    [k \in {IntOf(batch[i].id) : i \in 1..Len(batch)} |->
        [name |-> batch[ByIdPick(batch, k)].name]]

RECURSIVE FilterSeq(_, _)
FilterSeq(s, keys) ==
    IF s = <<>> THEN <<>>
    ELSE (IF Head(s) \in keys THEN <<Head(s)>> ELSE <<>>) \o FilterSeq(Tail(s), keys)

\* The queryset as it would be without the filter.
ObjectsToUpdateUnfiltered(st, keys) == st.order

\* queryset.filter(id__in=keys): the matching records, in the store's order.
ObjectsToUpdate(st, keys) == FilterSeq(st.order, keys)

\* len(all_validated_data_by_id) != self.objects_to_update.count()
CountMismatch(byId, objs) == Cardinality(DOMAIN byId) # Len(objs)

\* A lookup that ignores the record: the payload of the smallest key.
PayloadForFirst(byId, objId) ==
    LET k == CHOOSE j \in DOMAIN byId : \A m \in DOMAIN byId : j <= m IN byId[k]

\* all_validated_data_by_id.get(obj_id)
PayloadFor(byId, objId) == byId[objId]

\* self.child.update(obj, obj_validated_data) on a payload of plain fields:
\* every field is assigned and the record is saved.
ChildUpdate(rec, payload) == [name |-> payload.name, saves |-> rec.saves + 1]

Idle == op = "idle"

BulkUpdateBegin(queryset, batch) ==
    /\ Idle
    /\ op' = "bulk"
    /\ input' = [batch |-> batch]
    /\ store' = queryset
    /\ LET bad == FirstBad(batch)
       IN IF bad # 0
          THEN /\ outcome' = IntError(batch[bad].id)
               /\ pc' = "done"
               /\ local' = [byId |-> <<>>, objs |-> <<>>, i |-> 0]
               /\ UNCHANGED <<result, log>>
          ELSE LET byId == AllValidatedDataById(batch)
                   objs == ObjectsToUpdate(queryset, DOMAIN byId)
               IN /\ local' = [byId |-> byId, objs |-> objs, i |-> 1]
                  /\ log' = <<[ev |-> "filter", keys |-> DOMAIN byId]>>
                  /\ IF CountMismatch(byId, objs)
                     THEN /\ outcome' = "ValidationError"
                          /\ pc' = "done"
                          /\ UNCHANGED result
                     ELSE /\ pc' = "loop"
                          /\ result' = <<>>
                          /\ UNCHANGED outcome
    /\ UNCHANGED variant

\* One iteration of `for obj in self.objects_to_update` that returns.
BulkUpdateStep ==
    /\ op = "bulk" /\ pc = "loop"
    /\ local.i <= Len(local.objs)
    /\ LET objId == local.objs[local.i]
           data == PayloadFor(local.byId, objId)
       IN /\ store' = [store EXCEPT !.recs[objId] = ChildUpdate(@, data)]
          /\ log' = Append(log, [ev |-> "update", id |-> objId, data |-> data])
          /\ result' = Append(result, objId)
    /\ local' = [local EXCEPT !.i = @ + 1]
    /\ UNCHANGED <<variant, op, pc, input, outcome>>

\* The store as a rollback of the whole call would leave it.
AfterChildFailureRollback(st, objId) ==
    [st EXCEPT !.recs = [i \in DOMAIN st.recs |-> FreshRecord]]

\* What is left in the store when the single-record update of objId raises:
\* nothing is undone, and the failed save has written nothing.
AfterChildFailure(st, objId) == st

\* One iteration whose single-record update raises: nothing catches it.
BulkUpdateStepFails(e) ==
    /\ op = "bulk" /\ pc = "loop"
    /\ local.i <= Len(local.objs)
    /\ store' = AfterChildFailure(store, local.objs[local.i])
    /\ log' = Append(log, [ev |-> "raised", id |-> local.objs[local.i], err |-> e])
    /\ outcome' = e
    /\ pc' = "done"
    /\ UNCHANGED <<variant, op, input, local, result>>

\* return updated_objects
BulkUpdateReturn ==
    /\ op = "bulk" /\ pc = "loop"
    /\ local.i > Len(local.objs)
    /\ outcome' = "ok"
    /\ pc' = "done"
    /\ UNCHANGED <<variant, op, input, local, result, log, store>>

(***************************************************************************)
(* BaseModelSerializer.update                                              *)
(*                                                                         *)
(* A validated payload is a tree of mappings: `dicts` are the paths of the *)
(* nested mappings (the root mapping is the empty path), `leaves` maps the *)
(* path of every plain value to it.  A variable of the code that refers to *)
(* a nested mapping is the path of that mapping.                           *)
(***************************************************************************)
\* The value a payload gives for a field: one token per field.
ValFor(n) ==
    CASE n = "name" -> "v_name" [] n = "alias" -> "v_alias"
      [] n = "profile" -> "v_profile" [] n = "tags" -> "v_tags"
      [] n = "attr" -> "v_attr" [] n = "parent" -> "v_parent"
      [] n = "groups" -> "v_groups"

IsPrefix(a, b) == Len(a) <= Len(b) /\ SubSeq(b, 1, Len(a)) = a

PathsOf(p) == p.dicts \cup DOMAIN p.leaves

IsDict(p, path) == path = <<>> \/ path \in p.dicts

\* key in v
HasKey(p, v, key) == Append(v, key) \in PathsOf(p)

\* the keys of the mapping v
KeysOf(p, v) == {q[Len(q)] : q \in {r \in PathsOf(p) : Len(r) = Len(v) + 1 /\ IsPrefix(v, r)}}

\* v[key], for a key that is there
ValueAt(p, path) == IF path \in DOMAIN p.leaves THEN p.leaves[path] ELSE "mapping"

\* v.pop(key) and del v[key]: the entry goes with everything under it
RemoveKey(p, v, key) ==
    [dicts  |-> {q \in p.dicts : ~IsPrefix(Append(v, key), q)},
     leaves |-> [q \in {r \in DOMAIN p.leaves : ~IsPrefix(Append(v, key), r)} |-> p.leaves[q]]]

\* The fields a serializer may declare: name, the class of the serializer
\* field ("plain", "serializer" for a nested serializer, "list" for a nested
\* list serializer, "manyrelated" for a many-related field), its source, and
\* whether the model field of that name is a many-relation.
Field(n, kind, src, many) == [name |-> n, kind |-> kind, source |-> src, many |-> many]

AllFields ==
    << Field("name", "plain", <<"name">>, FALSE),
       Field("alias", "plain", <<"attr">>, FALSE),
       Field("profile", "serializer", <<"profile">>, FALSE),
       Field("tags", "list", <<"tags">>, TRUE),
       Field("groups", "manyrelated", <<"groups">>, TRUE),
       Field("attr", "serializer", <<"parent", "child", "attr">>, FALSE),
       Field("parent", "serializer", <<"parent", "child", "parent">>, FALSE) >>

\* The declared fields of one serializer class: some of AllFields, in order.
FieldsOf(S) == SelectSeq(AllFields, LAMBDA f : f.name \in S)

FieldNames == {AllFields[i].name : i \in 1..Len(AllFields)}

\* The payload validation builds: each given value sits at its field's source.
ProperPrefixes(src) == {SubSeq(src, 1, j) : j \in 1..(Len(src) - 1)}

ValidatedData(fields, given) ==
    LET present == {i \in 1..Len(fields) : fields[i].name \in given}
    IN [dicts  |-> UNION {ProperPrefixes(fields[i].source) : i \in present},
        leaves |-> [q \in {fields[i].source : i \in present} |->
                       ValFor(fields[CHOOSE i \in present : fields[i].source = q].name)]]

\* The records an update can reach: the instance, instance.parent and
\* instance.parent.child.
Recs == {"root", "p", "c"}

HasRel(rec, seg) == (rec = "root" /\ seg = "parent") \/ (rec = "p" /\ seg = "child")

Rel(rec, seg) == IF rec = "root" THEN "p" ELSE "c"

ModelFields(rec) ==
    CASE rec = "root" -> {"name", "attr", "profile", "tags", "groups", "parent"}
      [] rec = "p" -> {"child", "name"}
      [] rec = "c" -> {"attr", "parent", "name"}

AttrNames == {"name", "attr", "profile", "tags", "groups", "parent", "child"}

InitObjs == [attrs |-> [r \in Recs |-> [a \in AttrNames |-> "old"]],
             saves |-> [r \in Recs |-> 0]]

\* while '.' in source: path.append(...); v = v[first]; ins = getattr(ins, first)
RECURSIVE Walk(_, _, _, _, _)
Walk(p, src, j, v, ins) ==
    IF j >= Len(src) THEN [err |-> "none", v |-> v, ins |-> ins]
    ELSE IF ~IsDict(p, v) THEN [err |-> "TypeError", v |-> v, ins |-> ins]
    ELSE IF ~HasKey(p, v, src[j]) THEN [err |-> "KeyError", v |-> v, ins |-> ins]
    ELSE IF ~HasRel(ins, src[j]) THEN [err |-> "AttributeError", v |-> v, ins |-> ins]
    ELSE Walk(p, src, j + 1, Append(v, src[j]), Rel(ins, src[j]))

\* for field, data in reversed(path): if len(data[field]) == 0: del data[field]
RECURSIVE Cleanup(_, _, _)
Cleanup(p, src, j) ==
    IF j < 1 THEN p
    ELSE LET inner == SubSeq(src, 1, j)
             q == IF KeysOf(p, inner) = {}
                  THEN RemoveKey(p, SubSeq(src, 1, j - 1), src[j])
                  ELSE p
         IN Cleanup(q, src, j - 1)

\* The gate of the nested phase: `if field in v`, v being the whole payload.
Gate(p, f) == HasKey(p, <<>>, f.name)

\* A phase that would take every field.
HandlesEveryField(f) == TRUE

\* Which fields the nested phase handles:
\* isinstance(self.fields[field], (Serializer, ListSerializer))
Handles(f) == f.kind \in {"serializer", "list"}

\* The body of the loop for one field.  st is the state of the call: the
\* payload, the records, the events so far and the error raised, if any.
ApplyNested(st, f, var) ==
    LET w == Walk(st.payload, f.source, 1, <<>>, "root")
    IN IF w.err # "none" THEN [st EXCEPT !.err = w.err]
       ELSE IF var = "package" /\ f.name \notin ModelFields(w.ins)
            THEN [st EXCEPT !.err = "FieldDoesNotExist"]
       ELSE IF ~IsDict(st.payload, w.v) THEN [st EXCEPT !.err = "TypeError"]
       ELSE IF ~HasKey(st.payload, w.v, f.name) THEN [st EXCEPT !.err = "KeyError"]
       ELSE LET val == ValueAt(st.payload, Append(w.v, f.name))
                how == IF var = "package" /\ f.many THEN "relate" ELSE "setattr"
                popped == RemoveKey(st.payload, w.v, f.name)
            IN [payload |-> Cleanup(popped, f.source, Len(f.source) - 1),
                attrs   |-> [st.attrs EXCEPT ![w.ins][f.name] = val],
                saves   |-> [st.saves EXCEPT ![w.ins] = @ + 1],
                events  |-> st.events \o
                              << [ev |-> how, rec |-> w.ins, field |-> f.name,
                                  at |-> Append(w.v, f.name), val |-> val],
                                 [ev |-> "save", rec |-> w.ins] >>,
                err     |-> "none"]

\* for field in self.fields: ...
RECURSIVE NestedPhase(_, _, _, _)
NestedPhase(st, fields, i, var) ==
    IF i > Len(fields) \/ st.err # "none" THEN st
    ELSE LET f == fields[i]
             next == IF Handles(f) /\ Gate(st.payload, f)
                     THEN ApplyNested(st, f, var)
                     ELSE st
         IN NestedPhase(next, fields, i + 1, var)

\* super().update(instance, validated_data): the framework refuses a nested
\* mapping; otherwise every entry is assigned to the instance, which is saved.
StandardUpdate(st) ==
    IF \E k \in KeysOf(st.payload, <<>>) : <<k>> \in st.payload.dicts
    THEN [st EXCEPT !.err = "AssertionError"]
    ELSE [st EXCEPT
            !.attrs["root"] = [a \in AttrNames |->
                                 IF <<a>> \in DOMAIN st.payload.leaves
                                 THEN st.payload.leaves[<<a>>] ELSE @[a]],
            !.saves["root"] = @ + 1,
            !.events = Append(@, [ev |-> "save", rec |-> "root"])]

Update(S, given) ==
    /\ Idle
    /\ given \subseteq S
    /\ LET fields == FieldsOf(S)
           data == ValidatedData(fields, given)
           st0 == [payload |-> data, attrs |-> InitObjs.attrs, saves |-> InitObjs.saves,
                   events |-> <<>>, err |-> "none"]
           st1 == NestedPhase(st0, fields, 1, variant)
           st2 == IF st1.err = "none" THEN StandardUpdate(st1) ELSE st1
       IN /\ op' = "update"
          /\ pc' = "done"
          /\ input' = [fields |-> fields, given |-> given, data |-> data]
          /\ local' = [handed |-> st1.payload, reached |-> st1.err = "none",
                       attrs |-> st2.attrs, saves |-> st2.saves]
          /\ log' = st2.events
          /\ outcome' = IF st2.err = "none" THEN "ok" ELSE st2.err
          /\ result' = <<>>
    /\ UNCHANGED <<variant, store>>

(***************************************************************************)
(* BaseModelSerializer.create                                              *)
(***************************************************************************)
\* isinstance(self.fields[field], (ListSerializer, ManyRelatedField))
IsPlural(f) == f.kind \in {"list", "manyrelated"}

\* The declared fields that have an entry in the payload, in order.
Supplied(fields, data) == SelectSeq(fields, LAMBDA f : HasKey(data, <<>>, f.name))

\* data = {...}: what objects.create(**data) is given.
CreateData(fields, data) ==
    LET fs == SelectSeq(Supplied(fields, data), LAMBDA f : ~IsPlural(f))
    IN [n \in {fs[i].name : i \in 1..Len(fs)} |-> ValueAt(data, <<n>>)]

\* many_to_many_fields, in the order the loop meets them.
ManyToManyFields(fields, data) == SelectSeq(Supplied(fields, data), IsPlural)

\* getattr(instance, field).set(values) in the package, setattr in the legacy copy
AssocEvents(m2m, data, var) ==
    [i \in 1..Len(m2m) |->
        [ev |-> "assoc", how |-> IF var = "package" THEN "set" ELSE "setattr",
         field |-> m2m[i].name, val |-> ValueAt(data, <<m2m[i].name>>)]]

\* The store operations, were the save to come before the relations.
CreateEventsSaveFirst(created, assoc) ==
    <<created, [ev |-> "save", rec |-> "new"]>> \o assoc

\* The order of the store operations of create.
CreateEvents(created, assoc) ==
    <<created>> \o assoc \o <<[ev |-> "save", rec |-> "new"]>>

Create(S, given) ==
    /\ Idle
    /\ given \subseteq S
    /\ LET fields == FieldsOf(S)
           data == ValidatedData(fields, given)
           cdata == CreateData(fields, data)
           m2m == ManyToManyFields(fields, data)
       IN /\ input' = [fields |-> fields, given |-> given, data |-> data]
          /\ log' = CreateEvents([ev |-> "create", rec |-> "new", data |-> cdata],
                                 AssocEvents(m2m, data, variant))
          /\ local' = [attrs |-> cdata,
                       related |-> [n \in {m2m[i].name : i \in 1..Len(m2m)} |->
                                       ValueAt(data, <<n>>)],
                       saves |-> 2]
    /\ op' = "create"
    /\ pc' = "done"
    /\ outcome' = "ok"
    /\ result' = "new"
    /\ UNCHANGED <<variant, store>>

(***************************************************************************)
(* BaseModelSerializer.__init__                                            *)
(*                                                                         *)
(* Field names and the text of the `fields` option are strings of          *)
(* characters; the option is absent or a text.                             *)
(***************************************************************************)
OptChars == {"a", "b", ","}

DeclaredNames == {<<"a">>, <<"b">>, <<"a", "b">>}

NoOption == [given |-> FALSE, text |-> <<>>]

Options == {NoOption} \cup {[given |-> TRUE, text |-> t] : t \in SeqsUpTo(OptChars, MaxOpt)}

\* str.split(','): the pieces between the commas, empty ones included.
RECURSIVE Split(_, _)
Split(s, piece) ==
    IF s = <<>> THEN <<piece>>
    ELSE IF Head(s) = "," THEN <<piece>> \o Split(Tail(s), <<>>)
    ELSE Split(Tail(s), Append(piece, Head(s)))

\* The keyword arguments the framework's serializer constructor takes.
AcceptedKwargs == {"instance", "data", "many", "partial", "context", "read_only",
                   "write_only", "required", "default", "initial", "source", "label",
                   "help_text", "style", "error_messages", "validators", "allow_null"}

Kwargs(others, opt) == others \cup (IF opt.given THEN {"fields"} ELSE {})

\* super().__init__(*args, **kwargs): a keyword the constructor does not take
\* is a TypeError.
SuperInit(kwargs) == IF kwargs \subseteq AcceptedKwargs THEN "ok" ELSE "TypeError"

\* fields = kwargs.pop('fields', None); if fields: ... self.fields.pop(name)
FilterFields(declared, opt) ==
    IF opt.given /\ opt.text # <<>>
    THEN declared \cap Range(Split(opt.text, <<>>))
    ELSE declared

Construct(others, opt) ==
    /\ Idle
    /\ op' = "init"
    /\ pc' = "done"
    /\ input' = [kwargs |-> Kwargs(others, opt), opt |-> opt]
    /\ IF SuperInit(Kwargs(others, opt)) # "ok"
       THEN /\ outcome' = SuperInit(Kwargs(others, opt))
            /\ local' = [active |-> {}]
       ELSE /\ outcome' = "ok"
            /\ local' = [active |-> FilterFields(DeclaredNames, opt)]
    /\ UNCHANGED <<variant, result, log, store>>

(***************************************************************************)
(* BaseModelSerializer.to_internal_value                                   *)
(*                                                                         *)
(* The input of one record has an identifier entry (absent, or the text    *)
(* the client sent) and a name entry (absent, a valid name, or a name the  *)
(* field validation refuses).  The identifier field is read-only, so the   *)
(* standard validation never returns it.                                   *)
(***************************************************************************)
Absent == [kind |-> "absent", chars |-> <<>>]

DataIds == {Absent, Str(<<"1">>), Str(<<"2">>), Str(<<"3">>), Str(<<"x">>)}

InvalidName == "!"

DataNames == {"absent", "a", InvalidName}

Datas == [id : DataIds, name : DataNames]

\* self.parent: none, a list at the top (plain or bulk), a serializer, or a
\* list that has a parent itself (plain or bulk).
ParentKinds == {"none", "list_top", "bulk_top", "serializer", "list_nested", "bulk_nested"}

\* not self.parent or isinstance(self.parent, ListSerializer) and not self.parent.parent
IsRootPath(parent) == parent \in {"none", "list_top", "bulk_top"}

\* isinstance(self.parent, BulkListSerializer)
IsBulkList(parent) == parent \in {"bulk_top", "bulk_nested"}

Methods == {"GET", "POST", "PUT", "PATCH", "DELETE"}

\* self.context: no view, a view without a request, a request without a
\* method, or a request with a method.
Views == {"noview", "norequest", "nomethod"} \cup Methods

\* id_attr = getattr(self.Meta, 'update_lookup_field', 'id')
IdAttr == "id"

\* The stores a call can find, their records in identifier order.
RECURSIVE Sorted(_)
Sorted(S) ==
    IF S = {} THEN <<>>
    ELSE LET m == CHOOSE x \in S : \A y \in S : x <= y IN <<m>> \o Sorted(S \ {m})

SortedStores == {[order |-> Sorted(S), recs |-> [i \in S |-> FreshRecord]] : S \in SUBSET Ids}

\* super().to_internal_value(data): the standard field validation.  A missing
\* required field is an error unless the serializer is partial.
StandardValidation(data, partial) ==
    IF data.name = InvalidName \/ (data.name = "absent" /\ ~partial)
    THEN [err |-> TRUE, data |-> [name |-> "absent", id |-> Absent]]
    ELSE [err |-> FALSE, data |-> [name |-> data.name, id |-> Absent]]

\* id_field.get_value(data)
GetValue(data) == IF data.id.kind = "absent" THEN EmptyMarker ELSE data.id

\* getattr(self.context['view'].request, 'method', ''), guarded by
\* try/except in the package and unguarded in the legacy copy.
RequestMethod(view, var) ==
    IF view \in Methods THEN [err |-> "none", method |-> view]
    ELSE IF view = "nomethod" THEN [err |-> "none", method |-> ""]
    ELSE IF var = "package" THEN [err |-> "none", method |-> "None"]
    ELSE IF view = "noview" THEN [err |-> "KeyError", method |-> "None"]
    ELSE [err |-> "AttributeError", method |-> "None"]

\* all((isinstance(self.parent, BulkListSerializer), id_attr,
\*      request_method in ('PUT', 'PATCH')))
Injects(parent, method) ==
    IsBulkList(parent) /\ IdAttr # "" /\ method \in {"PUT", "PATCH"}

\* self.Meta.model.objects.get(id=...): how the lookup fails, if it does.
LookupError(st, raw) ==
    IF IntError(raw) # "none" THEN "ValueError"
    ELSE IF IntOf(raw) \notin DOMAIN st.recs THEN "DoesNotExist"
    ELSE "none"

\* A nested serializer that would always validate in partial mode.
NestedPartialAlways(hasId) == TRUE

\* partial=True for the record found by its identifier, partial=False for a
\* new one.
NestedPartial(hasId) == hasId

\* serializer.save() on a found record: update assigns what was validated and
\* saves the record.
SaveExisting(rec, validated) ==
    [name |-> IF validated.name = "absent" THEN rec.name ELSE validated.name,
     saves |-> rec.saves + 1]

\* serializer.save() without a record: create has the store create one and
\* saves it again.
NewId(st) ==
    IF DOMAIN st.recs = {} THEN 1
    ELSE (CHOOSE m \in DOMAIN st.recs : \A i \in DOMAIN st.recs : i <= m) + 1

SaveNew(st, validated) ==
    [order |-> Append(st.order, NewId(st)),
     recs  |-> [i \in DOMAIN st.recs \cup {NewId(st)} |->
                  IF i \in DOMAIN st.recs THEN st.recs[i]
                  ELSE [name |-> validated.name, saves |-> 2]]]

\* The root-level and top-of-list path, the same in both copies.
RootPath(parent, view, data, rootPartial, var) ==
    LET v == StandardValidation(data, rootPartial)
        m == RequestMethod(view, var)
    IN IF v.err THEN [outcome |-> "ValidationError", result |-> <<>>]
       ELSE IF m.err # "none" THEN [outcome |-> m.err, result |-> <<>>]
       ELSE IF Injects(parent, m.method)
            THEN [outcome |-> "ok",
                  result |-> [kind |-> "data", data |-> [v.data EXCEPT !.id = GetValue(data)]]]
            ELSE [outcome |-> "ok", result |-> [kind |-> "data", data |-> v.data]]

ToInternalValue(parent, view, data, rootPartial, st) ==
    /\ Idle
    /\ op' = "tiv"
    /\ pc' = "done"
    /\ input' = [parent |-> parent, view |-> view, data |-> data,
                 partial |-> rootPartial, store |-> st]
    /\ local' = <<>>
    /\ IF IsRootPath(parent)
       THEN LET r == RootPath(parent, view, data, rootPartial, variant)
            IN /\ outcome' = r.outcome
               /\ result' = r.result
               /\ store' = st
               /\ log' = <<[ev |-> "validate", partial |-> rootPartial]>>
       ELSE IF data.id.kind # "absent"
       THEN IF LookupError(st, data.id) # "none"
            THEN /\ outcome' = LookupError(st, data.id)
                 /\ result' = <<>>
                 /\ store' = st
                 /\ log' = <<>>
            ELSE IF variant = "legacy"
            THEN /\ outcome' = "ok"
                 /\ result' = [kind |-> "record", id |-> IntOf(data.id)]
                 /\ store' = st
                 /\ log' = <<>>
            ELSE LET v == StandardValidation(data, NestedPartial(TRUE))
                 IN /\ log' = <<[ev |-> "validate", partial |-> NestedPartial(TRUE)]>>
                    /\ IF v.err
                       THEN /\ outcome' = "ValidationError"
                            /\ result' = <<>>
                            /\ store' = st
                       ELSE /\ outcome' = "ok"
                            /\ result' = [kind |-> "record", id |-> IntOf(data.id)]
                            /\ store' = [st EXCEPT !.recs[IntOf(data.id)] =
                                                      SaveExisting(@, v.data)]
       ELSE IF variant = "legacy"
       THEN LET v == StandardValidation(data, rootPartial)
            IN /\ log' = <<[ev |-> "validate", partial |-> rootPartial]>>
               /\ store' = st
               /\ IF v.err
                  THEN outcome' = "ValidationError" /\ result' = <<>>
                  ELSE outcome' = "ok" /\ result' = [kind |-> "data", data |-> v.data]
       ELSE LET v == StandardValidation(data, NestedPartial(FALSE))
            IN /\ log' = <<[ev |-> "validate", partial |-> NestedPartial(FALSE)]>>
               /\ IF v.err
                  THEN /\ outcome' = "ValidationError"
                       /\ result' = <<>>
                       /\ store' = st
                  ELSE /\ outcome' = "ok"
                       /\ result' = [kind |-> "record", id |-> NewId(st)]
                       /\ store' = SaveNew(st, v.data)
    /\ UNCHANGED variant

(***************************************************************************)
(* Properties of BulkListSerializer.update                                 *)
(***************************************************************************)
BulkDone == op = "bulk" /\ pc = "done"

StoreIds == DOMAIN store.recs

Untouched == store.recs = [i \in StoreIds |-> FreshRecord]

\* Every payload carries an identifier the client sent, and one of them
\* names, as an integer, an identifier no record of the store has.
HasUnknownId(batch) ==
    /\ \A i \in 1..Len(batch) : batch[i].id.kind = "str"
    /\ \E i \in 1..Len(batch) :
          IntError(batch[i].id) = "none" /\ IntOf(batch[i].id) \notin StoreIds

AllIdsExist(batch) ==
    \A i \in 1..Len(batch) :
        IntError(batch[i].id) = "none" /\ IntOf(batch[i].id) \in StoreIds

DistinctIds(batch) ==
    \A i, j \in 1..Len(batch) :
        IntOf(batch[i].id) = IntOf(batch[j].id) => i = j

\* C1: a bulk update whose batch holds an identifier matching no record ends
\* with a ValidationError and leaves every record of the store as it was.
C1_UnknownIdRejected ==
    (BulkDone /\ HasUnknownId(input.batch)) =>
        (outcome = "ValidationError" /\ Untouched)

\* C2 as stated: when every payload carries an identifier that exists in the
\* store, a bulk update that no store failure interrupts succeeds and returns
\* as many records as there are payloads.
C2_OnePerPayload ==
    (BulkDone /\ AllIdsExist(input.batch) /\ outcome \notin StoreErrors) =>
        (outcome = "ok" /\ Len(result) = Len(input.batch))

\* C2 amended: the same with pairwise distinct identifiers; in general the
\* returned list has one record per distinct identifier.
C2_OnePerDistinctId ==
    (BulkDone /\ AllIdsExist(input.batch)) =>
        /\ outcome \in {"ok"} \cup StoreErrors
        /\ outcome = "ok" =>
              /\ Len(result) = Cardinality({IntOf(input.batch[i].id) : i \in 1..Len(input.batch)})
              /\ Range(result) = {IntOf(input.batch[i].id) : i \in 1..Len(input.batch)}
              /\ \A a, b \in 1..Len(result) : result[a] = result[b] => a = b
              /\ DistinctIds(input.batch) => Len(result) = Len(input.batch)

C2_Witness ==
    /\ BulkDone /\ outcome = "ok"
    /\ AllIdsExist(input.batch) /\ DistinctIds(input.batch)
    /\ Len(input.batch) = 2 /\ Len(result) = 2

PosIn(s, x) == CHOOSE i \in 1..Len(s) : s[i] = x

\* The update events of the loop, in order.
UpdateEvents == SelectSeq(log, LAMBDA e : e.ev = "update")

\* C6: the updated records come in the store's iteration order, and each is
\* updated with a payload of the batch that carries its own identifier.
C6_StoreOrderAndOwnPayload ==
    op = "bulk" =>
        /\ \A a, b \in 1..Len(result) :
              a < b => PosIn(store.order, result[a]) < PosIn(store.order, result[b])
        /\ Len(UpdateEvents) = Len(result)
        /\ \A j \in 1..Len(result) :
              /\ UpdateEvents[j].id = result[j]
              /\ \E i \in 1..Len(input.batch) :
                    /\ IntOf(input.batch[i].id) = result[j]
                    /\ UpdateEvents[j].data = [name |-> input.batch[i].name]
              /\ store.recs[result[j]].name = UpdateEvents[j].data.name
        /\ outcome = "ok" =>
              Range(result) = {IntOf(input.batch[i].id) : i \in 1..Len(input.batch)}

\* A successful update whose result is not in the order of the batch.
C6_Witness ==
    /\ BulkDone /\ outcome = "ok"
    /\ Len(result) = 2 /\ Len(input.batch) = 2
    /\ IntOf(input.batch[1].id) = result[2]
    /\ input.batch[1].name # input.batch[2].name

\* C10: a failure of the k-th single-record update ends the call with that
\* failure; the records before the k-th stay updated and saved, those after
\* it are as they were.
C10_FailurePropagatesNoRollback ==
    (BulkDone /\ outcome \in StoreErrors) =>
        LET k == local.i
        IN /\ log[Len(log)].ev = "raised"
           /\ log[Len(log)].err = outcome
           /\ log[Len(log)].id = local.objs[k]
           /\ \A j \in 1..Len(local.objs) :
                 /\ j < k => store.recs[local.objs[j]] =
                                ChildUpdate(FreshRecord, local.byId[local.objs[j]])
                 /\ j > k => store.recs[local.objs[j]] = FreshRecord
           /\ Len(result) = k - 1

C10_Witness ==
    /\ BulkDone /\ outcome \in StoreErrors
    /\ local.i = 2 /\ Len(local.objs) >= 2
    /\ store.recs[local.objs[1]].saves = 1


(***************************************************************************)
(* Properties of BaseModelSerializer.update                                *)
(***************************************************************************)
UpdateDone == op = "update" /\ pc = "done"

Last(s) == s[Len(s)]

\* The record a dotted source leads to, walking from the instance.
RECURSIVE LeafRecord(_, _, _)
LeafRecord(src, j, rec) ==
    IF j >= Len(src) THEN rec ELSE LeafRecord(src, j + 1, Rel(rec, src[j]))

\* The nested mappings of a payload that hold nothing.
EmptyDicts(p) == {d \in p.dicts : KeysOf(p, d) = {}}

\* The events of the nested phase that put a value on a record.
ApplyEvents == SelectSeq(log, LAMBDA e : e.ev \in {"setattr", "relate"})

\* C3: after an update whose payload carries a value for a nested field with
\* a dotted source, the record the path leads to has that value under the
\* last name of the path and has been saved, and no mapping of the payload is
\* left empty.
C3_DottedSourceApplied ==
    UpdateDone =>
        \A i \in 1..Len(input.fields) :
            LET f == input.fields[i]
            IN (Handles(f) /\ Len(f.source) > 1 /\ f.name \in input.given) =>
                  /\ local.attrs[LeafRecord(f.source, 1, "root")][Last(f.source)] = ValFor(f.name)
                  /\ local.saves[LeafRecord(f.source, 1, "root")] >= 1
                  /\ EmptyDicts(local.handed) = {}

\* The top-level keys under which the values of nested fields sit.
NestedKeys ==
    {input.fields[i].source[1] :
        i \in {j \in 1..Len(input.fields) : input.fields[j].kind \in {"serializer", "list"}}}

Subtree(p, k) == [dicts  |-> {q \in p.dicts : IsPrefix(<<k>>, q)},
                  leaves |-> [q \in {r \in DOMAIN p.leaves : IsPrefix(<<k>>, r)} |-> p.leaves[q]]]

\* C9: the nested phase puts values of nested fields only; every other
\* top-level entry of the payload reaches the standard update as it came, and
\* what the phase has put on a record is no longer in the payload, so the
\* standard update does not assign it again.
C9_NestedPhaseFrame ==
    op = "update" =>
        /\ \A k \in KeysOf(input.data, <<>>) \ NestedKeys :
              /\ k \in KeysOf(local.handed, <<>>)
              /\ Subtree(local.handed, k) = Subtree(input.data, k)
              /\ outcome = "ok" => local.attrs["root"][k] = input.data.leaves[<<k>>]
        /\ \A j \in 1..Len(ApplyEvents) :
              LET e == ApplyEvents[j]
              IN /\ \E i \in 1..Len(input.fields) :
                       input.fields[i].name = e.field
                       /\ input.fields[i].kind \in {"serializer", "list"}
                 /\ e.at \notin PathsOf(local.handed)
                 /\ e.val = input.data.leaves[e.at]
                 /\ local.attrs[e.rec][e.field] = e.val
                 /\ \A m \in 1..Len(ApplyEvents) : ApplyEvents[m].at = e.at => m = j
        /\ PathsOf(local.handed) \subseteq PathsOf(input.data)

\* An update that applies a dotted nested field and a plain nested field and
\* hands a plain entry on.
C9_Witness ==
    /\ UpdateDone /\ outcome = "ok" /\ local.reached
    /\ <<"name">> \in DOMAIN local.handed.leaves
    /\ \E j \in 1..Len(ApplyEvents) : Len(ApplyEvents[j].at) = 3
    /\ \E j \in 1..Len(ApplyEvents) : Len(ApplyEvents[j].at) = 1

(***************************************************************************)
(* Properties of BaseModelSerializer.__init__ and create                   *)
(***************************************************************************)
\* C4: constructing the serializer with a `fields` option that lists declared
\* field names succeeds and leaves exactly the listed fields active; without
\* the option every declared field stays.
C4_AllowListYieldsSubset ==
    (op = "init" /\ pc = "done") =>
        /\ (input.opt.given /\ Range(Split(input.opt.text, <<>>)) \subseteq DeclaredNames) =>
              (outcome = "ok" /\ local.active = Range(Split(input.opt.text, <<>>)))
        /\ ~input.opt.given => (outcome = "ok" /\ local.active = DeclaredNames)

PluralNames(fields) ==
    {fields[i].name : i \in {j \in 1..Len(fields) : fields[j].kind \in {"list", "manyrelated"}}}

TopKeys(fields, data) ==
    {fields[i].name : i \in {j \in 1..Len(fields) : <<fields[j].name>> \in PathsOf(data)}}

\* C5: create first has the store create the record from the entries of the
\* plain fields, none of the plural ones; then relates the record to the
\* values of each plural field; then saves it; and returns that record.
C5_CreateThenRelateThenSave ==
    (op = "create" /\ pc = "done") =>
        LET plural == PluralNames(input.fields) \cap TopKeys(input.fields, input.data)
            n == Len(log)
        IN /\ n = Cardinality(plural) + 2
           /\ log[1].ev = "create"
           /\ DOMAIN log[1].data = TopKeys(input.fields, input.data) \ PluralNames(input.fields)
           /\ \A k \in DOMAIN log[1].data : log[1].data[k] = ValueAt(input.data, <<k>>)
           /\ \A i \in 2..(n - 1) :
                 /\ log[i].ev = "assoc"
                 /\ log[i].field \in plural
                 /\ log[i].val = ValueAt(input.data, <<log[i].field>>)
                 /\ \A j \in 2..(n - 1) : log[j].field = log[i].field => i = j
           /\ log[n].ev = "save"
           /\ log[n].rec = log[1].rec
           /\ outcome = "ok"
           /\ result = log[1].rec

\* A create whose payload has two plural fields and a plain one.
C5_Witness ==
    /\ op = "create" /\ pc = "done"
    /\ Len(log) = 4
    /\ "name" \in DOMAIN log[1].data
    /\ log[2].field = "tags" /\ log[3].field = "groups"

(***************************************************************************)
(* Properties of BaseModelSerializer.to_internal_value                     *)
(***************************************************************************)
TivDone == op = "tiv" /\ pc = "done"

\* C7: on the root-level path the result of a valid input carries the
\* identifier read from the input when the parent is a bulk list and the
\* request method is PUT or PATCH; in every other case the call ends as the
\* standard validation does, with its result when it succeeds.
C7_IdentifierInjectedOnlyForBulkWrites ==
    (TivDone /\ IsRootPath(input.parent)) =>
        LET v == StandardValidation(input.data, input.partial)
        IN IF v.err THEN outcome = "ValidationError"
           ELSE /\ outcome = "ok"
                /\ result.kind = "data"
                /\ IF input.parent = "bulk_top" /\ input.view \in {"PUT", "PATCH"}
                   THEN /\ result.data.id = GetValue(input.data)
                        /\ result.data.name = v.data.name
                   ELSE result.data = v.data

NestedCall == TivDone /\ ~IsRootPath(input.parent) /\ variant = "package"

OthersUnchanged(except) ==
    \A i \in DOMAIN input.store.recs \ except : store.recs[i] = input.store.recs[i]

Init ==
    /\ variant \in Variants
    /\ op = "idle"
    /\ pc = "idle"
    /\ input = <<>>
    /\ local = <<>>
    /\ outcome = "none"
    /\ result = <<>>
    /\ log = <<>>
    /\ store = NoStore

\* The calls the framework makes, with every argument the bounds allow.
BulkUpdateCall ==
    Idle /\ \E queryset \in Stores, batch \in Batches : BulkUpdateBegin(queryset, batch)

UpdateCall ==
    Idle /\ \E S \in SUBSET FieldNames : \E P \in SUBSET S : Update(S, P)

CreateCall ==
    Idle /\ \E S \in SUBSET FieldNames : \E P \in SUBSET S : Create(S, P)

ConstructCall ==
    Idle /\ \E others \in SUBSET {"data", "context", "partial"}, opt \in Options :
               Construct(others, opt)

ToInternalValueCall ==
    Idle /\ \E parent \in ParentKinds, view \in Views, data \in Datas,
               rootPartial \in BOOLEAN, st \in SortedStores :
               ToInternalValue(parent, view, data, rootPartial, st)

Next ==
    \/ BulkUpdateCall
    \/ BulkUpdateStep
    \/ \E e \in StoreErrors : BulkUpdateStepFails(e)
    \/ BulkUpdateReturn
    \/ UpdateCall
    \/ CreateCall
    \/ ConstructCall
    \/ ToInternalValueCall

Spec == Init /\ [][Next]_vars

====
